---------------------------- MODULE Spec2Model ----------------------------
(***************************************************************************)
(* A model of variable_inspector.py: the renderer registry, the type       *)
(* classifier get_type_info and the recursive inspection engine            *)
(* inspect_any / inspect_recursive with its failure boundary.              *)
(*                                                                         *)
(* Values live in a heap: a function from object identities (id(var)) to   *)
(* objects.  The recursion of inspect_recursive is run on an explicit      *)
(* stack of pending calls; the result tree is the table `nodes`, one       *)
(* record per dictionary the recursion returns, in the order the calls     *)
(* are entered (depth first, pre-order).                                   *)
(***************************************************************************)
EXTENDS Integers, Sequences, FiniteSets, TLC

VARIABLES
    custom_renderers,   \* the process-wide registry: runtime type -> renderer
    input,              \* the arguments of the inspect_any call and its world
    pc,                 \* idle | running | except | returned | raised
    stack,              \* pending inspect_recursive calls, next one first
    seen,               \* the set of ids shared by the whole traversal
    nodes,              \* the result dictionaries, in creation order
    exc,                \* the exception raised: its class and the step raising it
    result,             \* what the caller receives
    nlog,               \* logging.error calls made by the current call
    last_registered,    \* history: the renderer of the last registration per type
    registered_at       \* history: per node, the renderer last registered for
                        \* the type of its value when the node was made

vars == <<custom_renderers, input, pc, stack, seen, nodes, exc, result, nlog,
          last_registered, registered_at>>

-----------------------------------------------------------------------------
(* Bounds of the model *)

NObj == 3          \* objects of a generated value graph
MaxLimit == 1      \* largest explicit per-type depth limit tried on graphs
MaxElems == 3      \* elements of a sampled container
MaxSample == 2     \* largest small sample_size tried
MaxChain == 9      \* longest chain of nested tuples

-----------------------------------------------------------------------------
(* Helpers *)

Min(a, b) == IF a < b THEN a ELSE b
Max(a, b) == IF a > b THEN a ELSE b

RECURSIVE SortedSeq(_)
SortedSeq(S) ==
    IF S = {} THEN <<>>
    ELSE LET m == CHOOSE m \in S : \A o \in S : m <= o
         IN <<m>> \o SortedSeq(S \ {m})

InsertAt(s, at, e) == SubSeq(s, 1, at) \o <<e>> \o SubSeq(s, at + 1, Len(s))

-----------------------------------------------------------------------------
(* Runtime types and the predicates the code branches on *)

\* isinstance(var, dict)
IsDict(t) == t = "dict"
\* isinstance(var, (list, tuple, set)); sublist is a subclass of list
IsSeqType(t) == t \in {"list", "sublist", "tuple", "set"}
\* isinstance(var, (dict, list, tuple, set))
IsContainer(t) == IsDict(t) \/ IsSeqType(t)
\* inspect.ismodule / inspect.isclass / isfunction or ismethod / iscoroutine
IsModule(t) == t = "module"
IsClass(t) == t = "type"
IsFunction(t) == t \in {"function", "method"}
IsCoroutine(t) == t = "coroutine"
\* hasattr(var, '__dict__'): instances of the user classes T and SubT(T)
HasDict(t) == t \in {"T", "SubT"}
\* isinstance(var, (int, float, str, bool, type(None)))
IsScalar(t) == t \in {"int", "str", "NoneType"}
\* isinstance(var, (datetime.datetime, datetime.date, datetime.time))
IsTemporal(t) == t = "datetime"
\* callable(obj)
IsCallable(t) ==
    \/ IsFunction(t) \/ IsClass(t)
    \/ t \in {"wrapper_descriptor", "method_descriptor", "builtin_function_or_method"}

\* the exception classes the model tells apart; SystemExit derives from
\* BaseException only
IsExceptionInstance(e) ==
    e \in {"ValueError", "TypeError", "RuntimeError", "UnicodeEncodeError"}

\* str(inspect.signature(obj)) of the callables the inputs are built from:
\* def f(a, b), its bound method, and a class that defines no __init__
SignatureText(t) == IF t = "type" THEN "()" ELSE "(a, b)"

\* an object of the heap: its runtime type, what it holds (dict pairs, list
\* elements, instance attributes, module or class members), what
\* inspect.signature does on it (ok | ValueError | TypeError) and the text of
\* the signature it returns, what a registered renderer does on it (none:
\* returns | the exception it raises), whether its __repr__ raises, and its
\* printed form
Obj(t, items) ==
    [type |-> t, items |-> items, sig |-> "ok", sigtext |-> SignatureText(t),
     rfail |-> "none", reprfail |-> FALSE,
     lit |-> IF t = "int" THEN "7"
             ELSE IF t = "NoneType" THEN "None"
             ELSE IF t = "complex" THEN "(1+2j)"
             ELSE IF t = "datetime" THEN "datetime.datetime(2024, 1, 2, 3, 4, 5)"
             ELSE "<" \o t \o " object>"]

\* the class a runtime type is looked up as when subclasses count as their
\* base: SubT as T, sublist as list
base_type(o) ==
    IF o.type = "SubT" THEN "T" ELSE IF o.type = "sublist" THEN "list" ELSE o.type

\* var_type = type(var): the exact runtime type
var_type(o) == o.type

Item(k, v) == [k |-> k, v |-> v]

\* a str used as a dict key
StrKey(k) == [type |-> "str", lit |-> k, reprfail |-> FALSE]

-----------------------------------------------------------------------------
(* register_renderer and the module-level helpers *)

\* a registration that keeps an entry already there
register_if_absent(registry, type_, renderer) ==
    [t \in DOMAIN registry \cup {type_} |->
        IF t \in DOMAIN registry THEN registry[t] ELSE renderer]

\* custom_renderers[type_] = renderer
register_renderer(registry, type_, renderer) ==
    [t \in DOMAIN registry \cup {type_} |->
        IF t = type_ THEN renderer ELSE registry[t]]

\* what a renderer returns on a value: f(value)
RenderOutput(renderer, id) == <<renderer, id>>

NoRendering == <<"", 0>>

\* get_type_info: the exception that leaves it.  ValueError from
\* inspect.signature is caught; anything else is not.
get_type_info_raises(o) ==
    IF IsCallable(o.type) /\ o.sig \notin {"ok", "ValueError"} THEN o.sig ELSE "none"

\* obj_type.__module__
ModuleOf(t) ==
    IF t \in {"T", "SubT", "sublist"} THEN "__main__"
    ELSE IF t = "datetime" THEN "datetime"
    ELSE "builtins"

\* str(var_type): classes outside builtins print with their module
TypeStr(t) ==
    IF ModuleOf(t) = "builtins" THEN "<class '" \o t \o "'>"
    ELSE "<class '" \o ModuleOf(t) \o "." \o t \o "'>"

NoSignature == "<absent>"

\* get_type_info: the dictionary it returns
get_type_info(o) ==
    [type_name |-> o.type,
     module |-> ModuleOf(o.type),
     signature |-> IF ~IsCallable(o.type) THEN NoSignature
                   ELSE IF o.sig = "ok" THEN o.sigtext
                   ELSE "Unable to determine signature"]

NoTypeInfo == [type_name |-> "", module |-> "", signature |-> NoSignature]

-----------------------------------------------------------------------------
(* The helpers nested in inspect_any *)

\* var.isoformat() of the temporal value of the model
isoformat(o) == "2024-01-02T03:04:05"

\* repr(obj) of a value whose __repr__ returns
Repr(o) == IF o.type = "str" THEN "'" \o o.lit \o "'" ELSE o.lit

safe_repr(o) ==
    IF o.reprfail THEN "<unprintable object of type " \o o.type \o ">" ELSE Repr(o)

\* attr_name.startswith('_')
StartsWithUnderscore(attr_name) ==
    Len(attr_name) >= 1 /\ SubSeq(attr_name, 1, 1) = "_"

should_include_attribute(include_private, attr_name) ==
    IF ~include_private /\ StartsWithUnderscore(attr_name) THEN FALSE
    ELSE attr_name \notin {"__dict__", "__weakref__", "__module__"}

\* the characters of identifiers in code point order, and the rank of c among
\* them, which orders them as ord(c) does
IdentifierChars == "0123456789ABCDEFGHIJKLMNOPQRSTUVWXYZ_abcdefghijklmnopqrstuvwxyz"
CodeOrder ==
    [c \in {SubSeq(IdentifierChars, i, i) : i \in 1..Len(IdentifierChars)} |->
        CHOOSE i \in 1..Len(IdentifierChars) : SubSeq(IdentifierChars, i, i) = c]
ord(c) == CodeOrder[c]

\* a[i:] < b[i:] on str, the characters before position i being equal: the
\* first differing character decides, a proper prefix is less
RECURSIVE StrLessFrom(_, _, _)
StrLessFrom(a, b, i) ==
    IF i > Len(b) THEN FALSE
    ELSE IF i > Len(a) THEN TRUE
    ELSE IF SubSeq(a, i, i) = SubSeq(b, i, i) THEN StrLessFrom(a, b, i + 1)
    ELSE ord(SubSeq(a, i, i)) < ord(SubSeq(b, i, i))

\* a < b on str
StrLess(a, b) == \E x \in {a}, y \in {b} : StrLessFrom(x, y, 1)

\* the place of the name at position p among the names at positions ps,
\* which are pairwise different, in increasing order
NameRank(items, ps, p) ==
    1 + Cardinality({q \in ps : StrLess(items[q].k, items[p].k)})

\* the positions in the order of their ranks, from pairs <<rank, position>>
InRankOrder(ranked) ==
    [r \in 1..Cardinality(ranked) |-> (CHOOSE pr \in ranked : pr[1] = r)[2]]

\* the positions ps of the items, sorted by the name at each position
SortedByName(items, ps) ==
    CHOOSE s \in {InRankOrder(ranked) :
                     ranked \in {{<<NameRank(items, ps, p), p>> : p \in ps}}} : TRUE

\* the positions, of those in ps, at which inspect.getmembers(var) yields the
\* members of a module or class: sorted by name
getmembers(o, ps) ==
    CHOOSE s \in {SortedByName(items, kept) : items \in {o.items}, kept \in {ps}} : TRUE

\* the sequences of k distinct positions of 1..n
Injections(n, k) ==
    {s \in [1..k -> 1..n] : \A i, j \in 1..k : i # j => s[i] # s[j]}

\* isinstance(collection, (list, tuple, set)) and len(collection) > sample_size:
\* ctype is the runtime type of the argument, which is dict_items when the
\* caller passes var.items()
SamplingApplies(ctype, n, sample_size) == IsSeqType(ctype) /\ n > sample_size

\* random.sample raises ValueError on a negative sample size
sample_raises(ctype, n, sample_size) ==
    IF SamplingApplies(ctype, n, sample_size) /\ sample_size < 0
    THEN "ValueError" ELSE "none"

\* a sample drawn with replacement
sample_with_replacement(ctype, n, sample_size) ==
    IF SamplingApplies(ctype, n, sample_size)
    THEN [1..Max(sample_size, 0) -> 1..n]
    ELSE {[i \in 1..n |-> i]}

\* sample_large_collection: every outcome it can produce, each the sequence
\* of positions of the collection it yields, in the order it yields them
sample_large_collection(ctype, n, sample_size) ==
    IF SamplingApplies(ctype, n, sample_size)
    THEN Injections(n, Max(sample_size, 0))
    ELSE {[i \in 1..n |-> i]}

calculate_dynamic_max_depth(t, n) ==
    IF IsContainer(t) THEN Min(10, Max(1, 7 - (n \div 100))) ELSE 5

\* max_depth = {dict: 5, list: 5, tuple: 5, set: 5} when the caller gives None
DefaultMaxDepth == [t \in {"dict", "list", "tuple", "set"} |-> 5]

\* max_depth as inspect_any uses it: the caller's, or the default for None
EffectiveMaxDepth(arg) == IF arg.given THEN arg.map ELSE DefaultMaxDepth

\* max_depth.get(var_type, calculate_dynamic_max_depth(var))
type_max_depth(max_depth, o) ==
    IF var_type(o) \in DOMAIN max_depth THEN max_depth[var_type(o)]
    ELSE calculate_dynamic_max_depth(o.type, Len(o.items))

\* the membership test left out
NeverSeen(id, seenSet) == FALSE

\* id(var) in seen
AlreadySeen(id, seenSet) == id \in seenSet

\* seen.add(id(var)), as the call that goes on to expand or raise leaves it
SeenAdd(seenSet, id) == seenSet \cup {id}

\* the id recorded only by the calls that get past the depth check
SeenNotAdded(seenSet, id) == seenSet

\* seen as the call that returns the max-depth marker leaves it: the id is
\* added before the depth is compared
SeenAtDepthCheck(seenSet, id) == seenSet \cup {id}

\* the comparison made one level too late
ExceedsDepthByTwo(current_depth, limit) == current_depth > limit + 1

\* current_depth > type_max_depth
ExceedsDepth(current_depth, limit) == current_depth > limit

\* var_type in custom_renderers
RendererApplies(registry, t) == t \in DOMAIN registry

\* the key the if/elif chain of inspect_recursive stores the content under
ContentKey(t) ==
    IF IsDict(t) THEN "value"
    ELSE IF IsSeqType(t) THEN "value"
    ELSE IF IsModule(t) THEN "module_contents"
    ELSE IF IsClass(t) THEN "class_contents"
    ELSE IF IsFunction(t) THEN "signature"
    ELSE IF IsCoroutine(t) THEN "coroutine_info"
    ELSE IF HasDict(t) THEN "attributes"
    ELSE "value"

\* whether the branch taken recurses into the items of the value
Recurses(t) == IsDict(t) \/ IsSeqType(t) \/ HasDict(t)

-----------------------------------------------------------------------------
(* The inputs: value graphs and the arguments of inspect_any *)

VariableName == "v"

None == [given |-> FALSE, map |-> [t \in {} |-> 0]]
Given(m) == [given |-> TRUE, map |-> m]

\* the defaults of inspect_any's parameters, on a console that prints anything
DefaultInput(heap) ==
    [heap |-> heap, max_depth |-> None, sample_size |-> 100,
     include_private |-> FALSE, print_to_console |-> TRUE,
     output_format |-> "text", console |-> "utf8"]

\* the key of the p-th pair of a dict, the name of the p-th attribute of an
\* instance; list elements have no key
AttrName(p) == "a" \o ToString(p)
KeyFor(t, p) ==
    IF IsDict(t) THEN "k" \o ToString(p)
    ELSE IF HasDict(t) THEN AttrName(p)
    ELSE ""

\* the items of a container that iterates the objects kids in this order
ItemsOf(t, kids) == [p \in 1..Len(kids) |-> Item(KeyFor(t, p), kids[p])]

\* an int object of value v
IntObj(v) == [Obj("int", <<>>) EXCEPT !.lit = ToString(v)]

\* a reference to the int object id, whose value is value
Elem(id, value) == [id |-> id, value |-> value]

\* the slot of an int in the table of a set of up to four elements: the hash
\* of a small int is the int, the table has 8 slots
SetSlots == 8
SetSlot(value) == value % SetSlots

\* the elements a set keeps: of equal ones, the first
FirstOfEqual(elems) ==
    {p \in 1..Len(elems) : \A q \in 1..(p - 1) : elems[q].value # elems[p].value}

\* set(elems), as the ids of the elements in iteration order: equal elements
\* are held once, and the iteration goes through the slots of the table
SetOf(elems) ==
    LET kept == FirstOfEqual(elems)
        rank(p) == 1 + Cardinality({q \in kept :
                                       SetSlot(elems[q].value) < SetSlot(elems[p].value)})
    IN [r \in 1..Cardinality(kept) |-> elems[CHOOSE p \in kept : rank(p) = r].id]

\* Ordered trees on 1..n numbered in pre-order, as their depth sequences
DepthSeqs(n) ==
    {d \in [1..n -> 0..(n - 1)] :
        /\ d[1] = 0
        /\ \A i \in 2..n : d[i] >= 1 /\ d[i] <= d[i - 1] + 1}

ParentOf(d, i) ==
    CHOOSE j \in 1..(i - 1) :
        d[j] = d[i] - 1 /\ \A k \in (j + 1)..(i - 1) : d[k] >= d[i]

TreeShapes(n) ==
    {[i \in 1..n |-> SortedSeq({j \in 2..n : ParentOf(d, j) = i})] :
        d \in DepthSeqs(n)}

\* a tree with one more reference, from any object to any object (itself, an
\* ancestor, a sibling's subtree), before or after the references it holds
WithExtraEdge(sh, n) ==
    UNION {{[sh EXCEPT ![src] = InsertAt(sh[src], at, dst)] :
                dst \in 1..n, at \in {0, Len(sh[src])}} : src \in 1..n}

Shapes(n) ==
    TreeShapes(n) \cup UNION {WithExtraEdge(sh, n) : sh \in TreeShapes(n)}

\* lists and dicts in every graph, instances of a class and of its subclass
\* too in those of one or two objects
GraphTypes(n) == IF n <= 2 THEN {"list", "dict", "T", "SubT"} ELSE {"list", "dict"}

GraphHeaps ==
    UNION {{[i \in 1..n |-> Obj(ty[i], ItemsOf(ty[i], sh[i]))] :
                sh \in Shapes(n), ty \in [1..n -> GraphTypes(n)]} : n \in 1..NObj}

GraphDepthConfigs ==
    {None} \cup {Given([t \in {ct} |-> l]) : ct \in {"list", "dict"}, l \in 0..MaxLimit}

GraphInputs ==
    {[DefaultInput(h) EXCEPT !.max_depth = m] :
        h \in GraphHeaps, m \in GraphDepthConfigs}

\* One container built from n references, to the ints n, n-1, .., 1 or all
\* to the same int 7 (which a set then holds once), inspected under a small
\* sample_size (negative included)
SampleTypes == {"list", "sublist", "tuple", "set", "dict"}

\* the references the container is built from: ids 2 .. n+1, or id 2 n times
SampleElems(n, distinct) ==
    [p \in 1..n |-> IF distinct THEN Elem(p + 1, n + 1 - p) ELSE Elem(2, 7)]

SampleHeap(t, n, distinct) ==
    [i \in 1..(IF distinct THEN n + 1 ELSE Min(n, 1) + 1) |->
        IF i = 1
        THEN Obj(t, ItemsOf(t, IF t = "set" THEN SetOf(SampleElems(n, distinct))
                               ELSE [p \in 1..n |-> SampleElems(n, distinct)[p].id]))
        ELSE IntObj(IF distinct THEN n + 2 - i ELSE 7)]

SampleInputs ==
    {[DefaultInput(SampleHeap(t, n, distinct)) EXCEPT !.sample_size = k] :
        t \in SampleTypes, n \in 0..MaxElems, distinct \in BOOLEAN,
        k \in (-1)..MaxSample}

\* a member every class or module has: its name, the runtime type of its
\* value, and what inspect.signature does on that value
Member(name, t, sg, text) == [name |-> name, type |-> t, sig |-> sg, sigtext |-> text]

\* the members a class statement without bases gives its class, beside the
\* ones its body defines
ObjectMembers ==
    <<Member("__class__", "type", "ValueError", ""),
      Member("__delattr__", "wrapper_descriptor", "ok", "(self, name, /)"),
      Member("__dict__", "mappingproxy", "ok", ""),
      Member("__dir__", "method_descriptor", "ok", "(self, /)"),
      Member("__doc__", "NoneType", "ok", ""),
      Member("__eq__", "wrapper_descriptor", "ok", "(self, value, /)"),
      Member("__format__", "method_descriptor", "ok", "(self, format_spec, /)"),
      Member("__ge__", "wrapper_descriptor", "ok", "(self, value, /)"),
      Member("__getattribute__", "wrapper_descriptor", "ok", "(self, name, /)"),
      Member("__getstate__", "method_descriptor", "ok", "(self, /)"),
      Member("__gt__", "wrapper_descriptor", "ok", "(self, value, /)"),
      Member("__hash__", "wrapper_descriptor", "ok", "(self, /)"),
      Member("__init__", "wrapper_descriptor", "ok", "(self, /, *args, **kwargs)"),
      Member("__init_subclass__", "builtin_function_or_method", "ValueError", ""),
      Member("__le__", "wrapper_descriptor", "ok", "(self, value, /)"),
      Member("__lt__", "wrapper_descriptor", "ok", "(self, value, /)"),
      Member("__module__", "str", "ok", ""),
      Member("__ne__", "wrapper_descriptor", "ok", "(self, value, /)"),
      Member("__new__", "builtin_function_or_method", "ok", "(*args, **kwargs)"),
      Member("__reduce__", "method_descriptor", "ok", "(self, /)"),
      Member("__reduce_ex__", "method_descriptor", "ok", "(self, protocol, /)"),
      Member("__repr__", "wrapper_descriptor", "ok", "(self, /)"),
      Member("__setattr__", "wrapper_descriptor", "ok", "(self, name, value, /)"),
      Member("__sizeof__", "method_descriptor", "ok", "(self, /)"),
      Member("__str__", "wrapper_descriptor", "ok", "(self, /)"),
      Member("__subclasshook__", "builtin_function_or_method", "ValueError", ""),
      Member("__weakref__", "getset_descriptor", "ok", "")>>

\* the members types.ModuleType(name) gives its module
ModuleMembers ==
    <<Member("__doc__", "NoneType", "ok", ""),
      Member("__loader__", "NoneType", "ok", ""),
      Member("__name__", "str", "ok", ""),
      Member("__package__", "NoneType", "ok", ""),
      Member("__spec__", "NoneType", "ok", "")>>

BuiltinMembers(t) ==
    IF IsClass(t) THEN ObjectMembers ELSE IF IsModule(t) THEN ModuleMembers ELSE <<>>

\* the values of those members, as heap objects
MemberObjects(t) ==
    [i \in 1..Len(BuiltinMembers(t)) |->
        [Obj(BuiltinMembers(t)[i].type, <<>>) EXCEPT
            !.sig = BuiltinMembers(t)[i].sig,
            !.sigtext = BuiltinMembers(t)[i].sigtext]]

\* a class or module whose own members are `own`, the values of the members
\* it has anyway being the heap objects from id `first` on
Namespace(t, own, first) ==
    Obj(t, own \o [i \in 1..Len(BuiltinMembers(t)) |->
                      Item(BuiltinMembers(t)[i].name, first + i - 1)])

\* One value of each category, alone or as the element of a list.  Modules,
\* classes and instances hold two named values, the second under a private
\* name; the first is a function or an int.
LeafObjects ==
    {[Obj(t, <<>>) EXCEPT !.sig = sg] :
        t \in {"function", "method"}, sg \in {"ok", "ValueError", "TypeError"}}
    \cup {Obj(t, <<>>) : t \in {"coroutine", "int", "NoneType", "datetime"}}
    \cup {[Obj("complex", <<>>) EXCEPT !.reprfail = b] : b \in BOOLEAN}
    \cup {[Namespace("type", <<Item("a1", 3), Item("_a2", 4)>>, 5) EXCEPT !.sig = sg] :
            sg \in {"ok", "ValueError", "TypeError"}}
    \cup {Namespace("module", <<Item("a1", 3), Item("_a2", 4)>>, 5)}
    \cup {[Obj(t, <<Item("a1", 3), Item("_a2", 4)>>) EXCEPT !.rfail = rf] :
            t \in {"T", "SubT"}, rf \in {"none", "RuntimeError", "SystemExit"}}

HeldObjects ==
    {Obj("int", <<>>)}
    \cup {[Obj("function", <<>>) EXCEPT !.sig = sg] : sg \in {"ok", "ValueError", "TypeError"}}

\* the two values a leaf object holds under its own names, if it holds any:
\* the second is another int than the first
HeldBy(o) ==
    IF o.items = <<>> THEN {<<>>} ELSE {<<h, IntObj(8)>> : h \in HeldObjects}

\* ids: 1 the list, 2 the value, 3 and 4 what the value holds, 5 on the
\* values of the members a class or module has anyway
LeafHeaps ==
    UNION {{<<Obj("list", ItemsOf("list", <<2>>)), o>> \o held \o MemberObjects(o.type) :
                held \in HeldBy(o)} : o \in LeafObjects}

\* the value itself as the root: ids 1 the value, 2 and 3 what it holds, 4 on
\* the values of the members it has anyway
Unwrapped(o) ==
    [o EXCEPT !.items = [p \in 1..Len(o.items) |-> Item(o.items[p].k, o.items[p].v - 1)]]

RootLeafHeaps ==
    UNION {{<<Unwrapped(o)>> \o held \o MemberObjects(o.type) :
                held \in HeldBy(o)} : o \in LeafObjects}

\* print_to_console, output_format and the console the process writes to
PrintConfigs ==
    {<<FALSE, "text", "closed">>, <<TRUE, "text", "utf8">>, <<TRUE, "tree", "utf8">>,
     <<TRUE, "text", "ascii">>, <<TRUE, "tree", "ascii">>, <<TRUE, "text", "closed">>}

LeafInputs ==
    {[DefaultInput(h) EXCEPT !.include_private = ip, !.print_to_console = pcf[1],
                             !.output_format = pcf[2], !.console = pcf[3]] :
        h \in LeafHeaps \cup RootLeafHeaps, ip \in BOOLEAN, pcf \in PrintConfigs}

\* A chain of nested tuples ending in a value: an empty list or dict, an int,
\* or a list of 100 references to one int, whose dynamic limit is lower
WideList == Obj("list", ItemsOf("list", [p \in 1..100 |-> 1]))

ChainEnds == {Obj(t, <<>>) : t \in {"list", "dict", "int"}} \cup {WideList}

\* the end's elements refer to the int placed after it
ChainHeap(len, end) ==
    [i \in 1..(len + 1) |->
        IF i < len THEN Obj("tuple", ItemsOf("tuple", <<i + 1>>))
        ELSE IF i = len
        THEN [end EXCEPT !.items = [p \in 1..Len(end.items) |-> Item("", len + 1)]]
        ELSE Obj("int", <<>>)]

\* the wide list is placed at its dynamic limit and one level below it
ChainCases ==
    {c \in (1..MaxChain) \X ChainEnds :
        c[2] = WideList =>
            (c[1] - 1) - calculate_dynamic_max_depth("list", Len(c[2].items)) \in {0, 1}}

ChainInputs ==
    {[DefaultInput(ChainHeap(c[1], c[2])) EXCEPT !.max_depth = m, !.sample_size = 1] :
        c \in ChainCases, m \in {None, Given([t \in {} |-> 0])}}

Inputs == GraphInputs \cup SampleInputs \cup LeafInputs \cup ChainInputs

-----------------------------------------------------------------------------
(* inspect_recursive: one call *)

\* a pending call inspect_recursive(var, name, current_depth, seen); parent
\* and pos say which node's comprehension makes the call and from which
\* position of that node's collection the value was drawn
Frame(var, name, current_depth, parent, pos) ==
    [var |-> var, name |-> name, current_depth |-> current_depth,
     parent |-> parent, pos |-> pos]

\* a result dictionary: `keys` are the keys it has, the other fields the
\* values under them (children are the nodes whose parent it is)
BaseNode(fr) ==
    [name |-> fr.name, keys |-> {}, var |-> fr.var, depth |-> fr.current_depth,
     parent |-> fr.parent, pos |-> fr.pos, type_info |-> NoTypeInfo, type |-> "",
     custom_rendering |-> NoRendering, signature |-> "", value |-> "",
     members |-> <<>>]

\* {"circular_reference": True, "name": name}
CircularNode(fr) == [BaseNode(fr) EXCEPT !.keys = {"circular_reference", "name"}]

\* a marker that keeps the classification
MaxDepthNodeWithTypeInfo(fr, o) ==
    [BaseNode(fr) EXCEPT !.keys = {"max_depth_reached", "name", "type", "type_info"},
                         !.type = TypeStr(o.type),
                         !.type_info = get_type_info(o)]

\* {"max_depth_reached": True, "name": name, "type": str(var_type)}
MaxDepthNode(fr, o) ==
    [BaseNode(fr) EXCEPT !.keys = {"max_depth_reached", "name", "type"},
                         !.type = TypeStr(var_type(o))]

\* the positions of the members (in getmembers order) or of the attributes
\* (in the order of vars(var)) that should_include_attribute keeps
IncludedPositions(o, include_private) ==
    IF IsModule(o.type) \/ IsClass(o.type)
    THEN getmembers(o, {p \in 1..Len(o.items) :
                          should_include_attribute(include_private, o.items[p].k)})
    ELSE SelectSeq([p \in 1..Len(o.items) |-> p],
                   LAMBDA p : should_include_attribute(include_private, o.items[p].k))

\* an exception of class cls raised by step `step` of inspect_any
Raised(cls, step) == [class |-> cls, step |-> step]
NoException == Raised("none", "")

\* the exception get_type_info raises on the first of the members at
\* positions ps on which it raises
first_raise(heap, o, ps) ==
    LET raises(i) == get_type_info_raises(heap[o.items[ps[i]].v])
    IN raises(CHOOSE i \in 1..Len(ps) :
                 /\ raises(i) # "none"
                 /\ \A j \in 1..(i - 1) : raises(j) = "none")

\* the exception raised by the member classification of a module or class:
\* none when get_type_info returns on every member kept, else that of the
\* first one, in getmembers order, on which it raises
members_raise(heap, o, include_private) ==
    IF \A p \in 1..Len(o.items) :
          should_include_attribute(include_private, o.items[p].k)
              => get_type_info_raises(heap[o.items[p].v]) = "none"
    THEN "none"
    ELSE CHOOSE e \in {first_raise(heap, o, ps) :
                          ps \in {IncludedPositions(o, include_private)}} : TRUE

\* the exception, if any, that leaves the body of inspect_recursive once the
\* cycle and depth checks have passed: classification, then the renderer,
\* then the branch taken
expand_raises(registry, inp, o) ==
    LET t == o.type
    IN IF get_type_info_raises(o) # "none"
       THEN Raised(get_type_info_raises(o), "classify")
       ELSE IF RendererApplies(registry, var_type(o)) /\ o.rfail # "none"
       THEN Raised(o.rfail, "render")
       ELSE IF IsDict(t) THEN NoException
       ELSE IF IsSeqType(t)
       THEN (IF sample_raises(t, Len(o.items), inp.sample_size) # "none"
             THEN Raised(sample_raises(t, Len(o.items), inp.sample_size), "sample")
             ELSE NoException)
       ELSE IF IsModule(t) \/ IsClass(t)
       THEN (IF members_raise(inp.heap, o, inp.include_private) # "none"
             THEN Raised(members_raise(inp.heap, o, inp.include_private), "members")
             ELSE NoException)
       ELSE IF IsFunction(t)
       THEN (IF o.sig = "ok" THEN NoException ELSE Raised(o.sig, "signature"))
       ELSE NoException

\* the orders in which the branch taken may iterate the positions of the
\* value's items: dicts pass var.items() to sample_large_collection
IterationOrders(inp, o) ==
    IF IsDict(o.type)
    THEN sample_large_collection("dict_items", Len(o.items), inp.sample_size)
    ELSE IF IsSeqType(o.type)
    THEN sample_large_collection(o.type, Len(o.items), inp.sample_size)
    ELSE IF Recurses(o.type) THEN {IncludedPositions(o, inp.include_private)}
    ELSE {<<>>}

\* the name given to the i-th value iterated (i from 1; enumerate counts from 0)
ChildName(o, name, i, item) ==
    IF IsDict(o.type) THEN name \o "[" \o safe_repr(StrKey(item.k)) \o "]"
    ELSE IF IsSeqType(o.type) THEN name \o "[" \o ToString(i - 1) \o "]"
    ELSE item.k

\* {item_name: get_type_info(item) ...} over the members at positions ps
member_infos(heap, o, ps) ==
    [i \in 1..Len(ps) |->
        [name |-> o.items[ps[i]].k, type_info |-> get_type_info(heap[o.items[ps[i]].v])]]

\* module_contents or class_contents: the members should_include_attribute
\* keeps, in getmembers order
contents(heap, o, include_private) ==
    CHOOSE c \in {member_infos(heap, o, ps) :
                     ps \in {IncludedPositions(o, include_private)}} : TRUE

\* the result dictionary of a value that is expanded, before its children
ExpandedNode(registry, inp, fr, o) ==
    LET t == o.type
    IN [BaseNode(fr) EXCEPT
          !.keys = {"name", "type_info", ContentKey(t)}
                     \cup (IF RendererApplies(registry, var_type(o))
                           THEN {"custom_rendering"} ELSE {}),
          !.type_info = get_type_info(o),
          !.custom_rendering = IF RendererApplies(registry, var_type(o))
                               THEN RenderOutput(registry[var_type(o)], fr.var)
                               ELSE NoRendering,
          !.signature = IF IsFunction(t) THEN o.sigtext ELSE "",
          !.members = IF IsModule(t) \/ IsClass(t)
                      THEN contents(inp.heap, o, inp.include_private)
                      ELSE <<>>,
          !.value = IF IsScalar(t) THEN o.lit
                    ELSE IF IsTemporal(t) THEN isoformat(o)
                    ELSE IF ContentKey(t) = "value" /\ ~IsContainer(t)
                    THEN safe_repr(o) ELSE ""]

\* the calls the comprehension of node number k makes, in order
ChildFrames(inp, fr, o, k, order) ==
    [i \in 1..Len(order) |->
        Frame(o.items[order[i]].v, ChildName(o, fr.name, i, o.items[order[i]]),
              fr.current_depth + 1, k, order[i])]

-----------------------------------------------------------------------------
(* The state machine *)

NoResult == [kind |-> "none", keys |-> {}, variable_name |-> "", error |-> ""]

Init ==
    /\ custom_renderers = [t \in {} |-> ""]
    /\ input \in Inputs
    /\ pc = "idle"
    /\ stack = <<>>
    /\ seen = {}
    /\ nodes = <<>>
    /\ exc = NoException
    /\ result = NoResult
    /\ nlog = 0
    /\ last_registered = [t \in {} |-> ""]
    /\ registered_at = <<>>

\* the registrations tried: one renderer, then another, for the class T,
\* none for its subclass SubT
Registrations == {<<"T", "f1">>, <<"T", "f2">>}

\* register_renderer(type_, renderer): by the caller between inspections, or
\* while inspect_any runs, by a renderer it calls or by another thread
RegisterRenderer(type_, renderer) ==
    /\ custom_renderers' = register_renderer(custom_renderers, type_, renderer)
    /\ last_registered' = (type_ :> renderer) @@ last_registered
    /\ UNCHANGED <<input, pc, stack, seen, nodes, exc, result, nlog, registered_at>>

\* inspect_any is entered: max_depth defaulted, the root call made
Call ==
    /\ pc = "idle"
    /\ pc' = "running"
    /\ stack' = <<Frame(1, VariableName, 0, 0, 0)>>
    /\ seen' = {}
    /\ nodes' = <<>>
    /\ exc' = NoException
    /\ result' = NoResult
    /\ nlog' = 0
    /\ registered_at' = <<>>
    /\ UNCHANGED <<custom_renderers, input, last_registered>>

Top == Head(stack)
TopObj == input.heap[Top.var]

\* the renderer last registered for exactly the type t, if any
NoRenderer == ""
RegisteredFor(t) ==
    IF t \in DOMAIN last_registered THEN last_registered[t] ELSE NoRenderer

\* the call finds id(var) in seen
VisitCircular ==
    /\ pc = "running" /\ stack # <<>>
    /\ AlreadySeen(Top.var, seen)
    /\ nodes' = Append(nodes, CircularNode(Top))
    /\ registered_at' = Append(registered_at, RegisteredFor(TopObj.type))
    /\ stack' = Tail(stack)
    /\ UNCHANGED <<custom_renderers, input, pc, seen, exc, result, nlog, last_registered>>

\* the call records id(var) and finds the depth over the limit of its type
VisitMaxDepth ==
    /\ pc = "running" /\ stack # <<>>
    /\ ~AlreadySeen(Top.var, seen)
    /\ ExceedsDepth(Top.current_depth, type_max_depth(EffectiveMaxDepth(input.max_depth), TopObj))
    /\ seen' = SeenAtDepthCheck(seen, Top.var)
    /\ nodes' = Append(nodes, MaxDepthNode(Top, TopObj))
    /\ registered_at' = Append(registered_at, RegisteredFor(TopObj.type))
    /\ stack' = Tail(stack)
    /\ UNCHANGED <<custom_renderers, input, pc, exc, result, nlog, last_registered>>

\* the call raises: the exception unwinds every pending call
VisitRaise ==
    /\ pc = "running" /\ stack # <<>>
    /\ ~AlreadySeen(Top.var, seen)
    /\ ~ExceedsDepth(Top.current_depth, type_max_depth(EffectiveMaxDepth(input.max_depth), TopObj))
    /\ expand_raises(custom_renderers, input, TopObj) # NoException
    /\ seen' = SeenAdd(seen, Top.var)
    /\ exc' = expand_raises(custom_renderers, input, TopObj)
    /\ pc' = "except"
    /\ stack' = <<>>
    /\ UNCHANGED <<custom_renderers, input, nodes, result, nlog, last_registered, registered_at>>

\* the call builds its dictionary and recurses into what it iterates
VisitExpand ==
    /\ pc = "running" /\ stack # <<>>
    /\ ~AlreadySeen(Top.var, seen)
    /\ ~ExceedsDepth(Top.current_depth, type_max_depth(EffectiveMaxDepth(input.max_depth), TopObj))
    /\ expand_raises(custom_renderers, input, TopObj) = NoException
    /\ seen' = SeenAdd(seen, Top.var)
    /\ nodes' = Append(nodes, ExpandedNode(custom_renderers, input, Top, TopObj))
    /\ registered_at' = Append(registered_at, RegisteredFor(TopObj.type))
    /\ \E order \in IterationOrders(input, TopObj) :
          stack' = ChildFrames(input, Top, TopObj, Len(nodes) + 1, order) \o Tail(stack)
    /\ UNCHANGED <<custom_renderers, input, pc, exc, result, nlog, last_registered>>

\* print(...) raises on a closed console, and on an ASCII-only console
\* when the text has the tree printer's box-drawing characters
print_raises(console, boxChars) ==
    IF console = "closed" THEN "ValueError"
    ELSE IF console = "ascii" /\ boxChars THEN "UnicodeEncodeError"
    ELSE "none"

\* the exception of the printing step of the try block
presenter_raises(inp) ==
    IF inp.print_to_console
    THEN print_raises(inp.console, inp.output_format = "tree")
    ELSE "none"

\* the traversal is over: metadata is attached, the result printed and returned
FinishReturn ==
    /\ pc = "running" /\ stack = <<>>
    /\ presenter_raises(input) = "none"
    /\ nodes' = [nodes EXCEPT ![1].keys = @ \cup {"metadata"}]
    /\ result' = [kind |-> "node", keys |-> nodes'[1].keys,
                  variable_name |-> "", error |-> ""]
    /\ pc' = "returned"
    /\ UNCHANGED <<custom_renderers, input, stack, seen, exc, nlog, last_registered, registered_at>>

\* the traversal is over and printing the result raises
FinishRaise ==
    /\ pc = "running" /\ stack = <<>>
    /\ presenter_raises(input) # "none"
    /\ nodes' = [nodes EXCEPT ![1].keys = @ \cup {"metadata"}]
    /\ exc' = Raised(presenter_raises(input), "print")
    /\ pc' = "except"
    /\ UNCHANGED <<custom_renderers, input, stack, seen, result, nlog, last_registered, registered_at>>

\* except Exception does not match: the exception reaches the caller
Propagate ==
    /\ pc = "except"
    /\ ~IsExceptionInstance(exc.class)
    /\ result' = [kind |-> "raised", keys |-> {}, variable_name |-> "", error |-> exc.class]
    /\ pc' = "raised"
    /\ UNCHANGED <<custom_renderers, input, stack, seen, nodes, exc, nlog, last_registered, registered_at>>

\* the exception of the handler's own print(error_msg)
handler_print_raises(inp) ==
    IF inp.print_to_console THEN print_raises(inp.console, FALSE) ELSE "none"

\* the handler logs, prints and returns the error object
HandleError ==
    /\ pc = "except"
    /\ IsExceptionInstance(exc.class)
    /\ handler_print_raises(input) = "none"
    /\ nlog' = nlog + 1
    /\ result' = [kind |-> "error", keys |-> {"error", "variable_name"},
                  variable_name |-> VariableName, error |-> exc.class]
    /\ pc' = "returned"
    /\ UNCHANGED <<custom_renderers, input, stack, seen, nodes, exc, last_registered, registered_at>>

\* the handler logs, and its print raises: that exception reaches the caller
HandleErrorRaise ==
    /\ pc = "except"
    /\ IsExceptionInstance(exc.class)
    /\ handler_print_raises(input) # "none"
    /\ nlog' = nlog + 1
    /\ exc' = Raised(handler_print_raises(input), "handler_print")
    /\ result' = [kind |-> "raised", keys |-> {}, variable_name |-> "",
                  error |-> handler_print_raises(input)]
    /\ pc' = "raised"
    /\ UNCHANGED <<custom_renderers, input, stack, seen, nodes, last_registered, registered_at>>

\* the caller has the outcome; the process goes on
Return ==
    /\ pc \in {"returned", "raised"}
    /\ pc' = "idle"
    /\ stack' = <<>>
    /\ seen' = {}
    /\ nodes' = <<>>
    /\ exc' = NoException
    /\ result' = NoResult
    /\ nlog' = 0
    /\ registered_at' = <<>>
    /\ UNCHANGED <<custom_renderers, input, last_registered>>

Running ==
    \/ VisitCircular
    \/ VisitMaxDepth
    \/ VisitRaise
    \/ VisitExpand
    \/ FinishReturn
    \/ FinishRaise
    \/ Propagate
    \/ HandleError
    \/ HandleErrorRaise

Next ==
    \/ \E r \in Registrations : RegisterRenderer(r[1], r[2])
    \/ Call
    \/ Running
    \/ Return

Spec == Init /\ [][Next]_vars

\* inspect_any is synchronous: once entered it runs to its return or raise
FairSpec == Spec /\ WF_vars(Running)

-----------------------------------------------------------------------------
(* The result tree, read back from `nodes` *)

NodeIds == 1..Len(nodes)
ValueOf(k) == input.heap[nodes[k].var]
IsCircular(k) == "circular_reference" \in nodes[k].keys
IsMaxDepth(k) == "max_depth_reached" \in nodes[k].keys
IsExpanded(k) == "type_info" \in nodes[k].keys

\* the entries of node k's mapping, sequence or attributes, in order
Children(k) == {j \in NodeIds : nodes[j].parent = k}
ChildSeq(k) == SortedSeq(Children(k))

RECURSIVE AncestorNodes(_)
AncestorNodes(k) ==
    IF nodes[k].parent = 0 THEN {}
    ELSE {nodes[k].parent} \cup AncestorNodes(nodes[k].parent)

\* the value of node k is the value of one of its ancestors: a real cycle
OnOwnPath(k) == \E a \in AncestorNodes(k) : nodes[a].var = nodes[k].var

CircularKeys == {"circular_reference", "name"}
MaxDepthKeys == {"max_depth_reached", "name", "type"}
ContentKeys ==
    {"circular_reference", "max_depth_reached", "value", "module_contents",
     "class_contents", "signature", "coroutine_info", "attributes"}

\* inspect_any has returned a node tree to the caller
ReturnedTree == pc = "returned" /\ result.kind = "node"
Finished == pc \in {"returned", "raised"}

OwnLimit(k) == type_max_depth(EffectiveMaxDepth(input.max_depth), ValueOf(k))

-----------------------------------------------------------------------------
(* Cycles and shared values *)

\* a node whose value is the value of one of its ancestors is the bare marker
CycleMarkers ==
    \A k \in NodeIds :
        OnOwnPath(k) => nodes[k].keys = CircularKeys /\ Children(k) = {}

\* C1: on every value graph, cyclic ones included, inspect_any terminates
\* (returns or raises), and every node at which the traversal reaches a value
\* that is an ancestor on the current path is a circular-reference marker
\* holding only circular_reference and name, with no children.
C1_CycleSafety == []CycleMarkers /\ (pc = "running" ~> Finished)

\* a tree was returned in which the traversal came back to an ancestor
C1_Witness ==
    ReturnedTree /\ \E k \in NodeIds : OnOwnPath(k) /\ IsCircular(k)

\* C2: a node is a circular-reference marker only if its value is the value
\* of one of its ancestors on the path from the root; a value reached over two
\* sibling paths is never flagged.
C2_PathScoped == \A k \in NodeIds : IsCircular(k) => OnOwnPath(k)

\* C10: within one call every value identity has at most one node that is not
\* a circular-reference marker, the first one made for it: the identity is in
\* seen from that first encounter on, also when that encounter was cut off as
\* a max-depth marker, so every later encounter is a childless marker.
C10_OneNodePerIdentity ==
    /\ \A k \in NodeIds : nodes[k].var \in seen
    /\ \A j, k \in NodeIds :
          j < k /\ nodes[j].var = nodes[k].var
              => nodes[k].keys = CircularKeys /\ Children(k) = {}

\* a value first met beyond its depth limit is met again within the limit,
\* off its own path, and is reported as circular there
C10_Witness ==
    /\ ReturnedTree
    /\ \E j, k \in NodeIds :
          /\ j < k /\ nodes[j].var = nodes[k].var
          /\ IsMaxDepth(j) /\ IsCircular(k)
          /\ nodes[k].depth <= OwnLimit(k)
          /\ ~OnOwnPath(k)

-----------------------------------------------------------------------------
(* Depth limits *)

\* the nearest ancestor of node k whose value is a dict, list, tuple or set
\* (0 when there is none)
RECURSIVE NearestContainer(_)
NearestContainer(k) ==
    IF nodes[k].parent = 0 THEN 0
    ELSE IF IsContainer(ValueOf(nodes[k].parent).type) THEN nodes[k].parent
    ELSE NearestContainer(nodes[k].parent)

\* C3 as stated: a node deeper than the effective limit of the type of its
\* nearest ancestor container is not expanded: it is a max-depth marker with
\* the type name, no content and no descendants (a circular-reference marker,
\* which the cycle check makes first, is let pass here).
C3_AncestorTypeLimit ==
    \A k \in NodeIds :
        LET a == NearestContainer(k)
        IN a # 0 /\ nodes[k].depth > OwnLimit(a)
              => /\ nodes[k].keys = MaxDepthKeys \/ nodes[k].keys = CircularKeys
                 /\ Children(k) = {}

\* C3 (amended): the limit that applies to a node is the effective limit of
\* the runtime type of its own value (explicit entry, else the dynamic limit
\* of that value).  A node deeper than it is never expanded and has no
\* descendants: it is a max-depth marker carrying the type, or, when an
\* earlier node was made for the same value, a circular-reference marker.
C3_OwnTypeLimit ==
    \A k \in NodeIds :
        nodes[k].depth > OwnLimit(k)
            => /\ Children(k) = {}
               /\ IF \E j \in 1..(k - 1) : nodes[j].var = nodes[k].var
                  THEN nodes[k].keys = CircularKeys
                  ELSE /\ nodes[k].keys = MaxDepthKeys
                       /\ nodes[k].type = TypeStr(ValueOf(k).type)

\* a tree was returned with a max-depth marker below a container whose own
\* limit the marker's depth does not exceed
C3_Witness ==
    /\ ReturnedTree
    /\ \E k \in NodeIds :
          /\ IsMaxDepth(k) /\ nodes[k].depth > OwnLimit(k)
          /\ NearestContainer(k) # 0
          /\ nodes[k].depth <= OwnLimit(NearestContainer(k))

-----------------------------------------------------------------------------
(* Sampling *)

IndexedName(k, i) == nodes[k].name \o "[" \o ToString(i - 1) \o "]"

\* the entries of node k come from pairwise distinct positions of its value
DistinctPositions(k) ==
    \A i, j \in Children(k) : i # j => nodes[i].pos # nodes[j].pos

\* C4: in a returned tree, an expanded list, tuple or set node of n elements
\* has exactly sample_size entries when n > sample_size, drawn from distinct
\* positions and named name[0] .. name[sample_size-1]; otherwise it has its n
\* elements, in iteration order.
C4_ElementSampling ==
    ReturnedTree =>
        \A k \in NodeIds :
            IsExpanded(k) /\ IsSeqType(ValueOf(k).type) =>
                LET n == Len(ValueOf(k).items)
                    ch == ChildSeq(k)
                IN /\ Len(ch) = IF n > input.sample_size THEN input.sample_size ELSE n
                   /\ DistinctPositions(k)
                   /\ \A i \in 1..Len(ch) :
                         /\ nodes[ch[i]].name = IndexedName(k, i)
                         /\ nodes[ch[i]].pos \in 1..n
                         /\ nodes[ch[i]].var = ValueOf(k).items[nodes[ch[i]].pos].v
                         /\ n <= input.sample_size => nodes[ch[i]].pos = i

\* a container of more elements than sample_size was expanded and cut to it
C4_Witness ==
    /\ ReturnedTree
    /\ \E k \in NodeIds :
          /\ IsExpanded(k) /\ IsSeqType(ValueOf(k).type)
          /\ input.sample_size >= 2
          /\ Len(ValueOf(k).items) > input.sample_size
          /\ Len(ChildSeq(k)) = input.sample_size

\* C5: in a returned tree, an expanded dict node of more than sample_size
\* pairs has exactly sample_size entries, from distinct pairs.
C5_MappingSampling ==
    ReturnedTree =>
        \A k \in NodeIds :
            /\ IsExpanded(k) /\ IsDict(ValueOf(k).type)
            /\ input.sample_size >= 0
            /\ Len(ValueOf(k).items) > input.sample_size
            => Len(ChildSeq(k)) = input.sample_size /\ DistinctPositions(k)

-----------------------------------------------------------------------------
(* Failures *)

\* C6: whenever a step of the traversal or of the printing raises, inspect_any
\* does not propagate it: it returns exactly {error, variable_name} with the
\* caller's name and no metadata, and logs exactly one error; the caller only
\* ever receives a node without an error field or such an error object.
C6_ErrorContainment ==
    Finished =>
        /\ pc = "returned"
        /\ IF exc.class = "none"
           THEN result.kind = "node" /\ "error" \notin result.keys /\ nlog = 0
           ELSE /\ result.kind = "error"
                /\ result.keys = {"error", "variable_name"}
                /\ result.variable_name = VariableName
                /\ nlog = 1

\* C7: a failure of signature extraction, at any node and of any kind, is
\* replaced by a placeholder and the traversal continues: no exception raised
\* by the classifier (of a node or of a member) or by the function/method
\* branch is ever in flight.
C7_SignatureFailureLocal == exc.step \notin {"classify", "members", "signature"}

-----------------------------------------------------------------------------
(* Renderers and node shape *)

\* every node carries the rendering of the renderer that was, when the node
\* was made, the last one registered for the exact runtime type of its value,
\* beside its content field, if it is expanded and there was such a
\* registration; otherwise it carries none
OverlayMatchesRegistry ==
    \A k \in NodeIds :
        LET t == ValueOf(k).type
            renderer == registered_at[k]
        IN IF IsExpanded(k) /\ renderer # NoRenderer
           THEN /\ "custom_rendering" \in nodes[k].keys
                /\ nodes[k].custom_rendering = RenderOutput(renderer, nodes[k].var)
                /\ ContentKey(t) \in nodes[k].keys
           ELSE /\ "custom_rendering" \notin nodes[k].keys
                /\ nodes[k].custom_rendering = NoRendering

\* the steps of inspect_any, from its entry to its return or raise, leave the
\* registry as it is
RegistryKeptByInspection ==
    Call \/ Running \/ Return => custom_renderers' = custom_renderers

\* C8: after register_renderer(T, f), the latest registration for T winning,
\* every expanded node whose value has runtime type exactly T carries
\* custom_rendering = f(value) beside its category content; nodes of a strict
\* subtype of T or of a type with no registration carry none; and no step of
\* inspect_any changes the registry.
C8_RendererOverlay ==
    []OverlayMatchesRegistry /\ [][RegistryKeptByInspection]_vars

\* a T instance holding a SubT instance was inspected with a renderer
\* registered for T before either node was made: the T instance carries its
\* rendering beside its attributes, the SubT instance, made later, none
C8_Witness ==
    /\ ReturnedTree
    /\ \E j, k \in NodeIds :
          /\ j < k
          /\ ValueOf(j).type = "T" /\ registered_at[j] # NoRenderer
          /\ "custom_rendering" \in nodes[j].keys
          /\ ContentKey("T") \in nodes[j].keys
          /\ ValueOf(k).type = "SubT" /\ IsExpanded(k)
          /\ "custom_rendering" \notin nodes[k].keys

\* C9: every node has a name and exactly one of the content fields;
\* custom_rendering may come on top; the two markers carry neither type_info
\* nor anything else.
C9_ExactlyOneContent ==
    \A k \in NodeIds :
        /\ "name" \in nodes[k].keys
        /\ Cardinality(nodes[k].keys \cap ContentKeys) = 1
        /\ IsCircular(k) => nodes[k].keys = CircularKeys
        /\ IsMaxDepth(k) => nodes[k].keys = MaxDepthKeys
        /\ IsExpanded(k) \/ IsCircular(k) \/ IsMaxDepth(k)
        /\ nodes[k].keys \subseteq
              ContentKeys \cup {"name", "type_info", "type", "custom_rendering", "metadata"}

\* a returned tree holding a max-depth marker, a circular-reference marker
\* and a node with a rendering on top of its content
C9_Witness ==
    /\ ReturnedTree
    /\ \E i, j, k \in NodeIds :
          /\ IsMaxDepth(i)
          /\ IsCircular(j)
          /\ "custom_rendering" \in nodes[k].keys

=============================================================================
